---- MODULE Spec2Model ----
(***************************************************************************)
(* Tenant risk scoring service (model/app/main.py): a FastAPI application   *)
(* that loads a pickled classifier once at startup and answers              *)
(*   GET  /               health_check                                      *)
(*   POST /predict/score  predict_risk_score                                *)
(* The artifact is external to the repository.  It is modelled as a fixed   *)
(* deterministic object: what predict_proba answers for a feature row is    *)
(* revealed the first time the row is scored and is the same ever after.    *)
(* Probabilities are IEEE-754 binary64 values; the arithmetic of line 64 is *)
(* modelled bit by bit so that the score is what the interpreter computes.  *)
(***************************************************************************)
EXTENDS Integers, Sequences, FiniteSets

(***************************************************************************)
(* Bounds of the exploration.                                               *)
(***************************************************************************)
\* request fields missedPeriods and totalDisputes satisfy m + d <= MaxCount
MaxCount == 1
\* number of POST /predict/score requests explored against a coarse artifact
MaxRequests == 2
\* a coarse artifact answers probabilities k / CoarseDen
CoarseDen == 2
\* a fine artifact answers probabilities k / FineDen
FineDen == 1000

(***************************************************************************)
(* binary64 arithmetic.  A positive double is [exp, bits]: bits is its      *)
(* 53-bit significand, most significant bit first (bits[1] = 1), and its    *)
(* value is 0.b1 b2 ... b53 (binary) * 2^exp.  Zero has no bits.  All       *)
(* intermediate integers stay below 2^31.                                   *)
(***************************************************************************)
PrecisionBits == 53
\* the significand is multiplied in three limbs of at most LimbBits bits
LimbBits == PrecisionBits \div 3 + 1

FloatZero == [exp |-> 0, bits |-> <<>>]

IsZero(x) == x.bits = <<>>

\* the n-bit representation of v < 2^n, most significant bit first
FixedBits(v, n) == [i \in 1..n |-> (v \div (2 ^ (n - i))) % 2]

\* the number of bits of v > 0
BitLength(v) == CHOOSE n \in 1..31 : 2 ^ (n - 1) <= v /\ (n = 31 \/ v < 2 ^ n)

\* the bits of a natural number without leading zeros (none for 0)
ToBits(v) == IF v = 0 THEN <<>> ELSE FixedBits(v, BitLength(v))

\* the value of a short bit string
RECURSIVE BitsToInt(_)
BitsToInt(s) ==
    IF s = <<>> THEN 0
    ELSE 2 * BitsToInt(SubSeq(s, 1, Len(s) - 1)) + s[Len(s)]

\* s + 1 on a bit string of fixed length; carry tells that it wrapped around
Increment(s) ==
    IF \A i \in 1..Len(s) : s[i] = 1
    THEN [bits |-> [i \in 1..Len(s) |-> 0], carry |-> 1]
    ELSE LET j == CHOOSE i \in 1..Len(s) :
                      s[i] = 0 /\ \A h \in (i + 1)..Len(s) : s[h] = 1
         IN  [bits  |-> [i \in 1..Len(s) |->
                            IF i < j THEN s[i] ELSE IF i = j THEN 1 ELSE 0],
              carry |-> 0]

\* round-to-nearest, ties-to-even, of 0.kept... * 2^exp given whether the
\* discarded part is above, at or below one half of the last kept place
RoundNearestEven(kept, exp, aboveHalf, atHalf) ==
    IF aboveHalf \/ (atHalf /\ kept[Len(kept)] = 1)
    THEN LET r == Increment(kept)
         IN  IF r.carry = 1
             THEN [exp |-> exp + 1, bits |-> <<1>> \o SubSeq(r.bits, 1, Len(kept) - 1)]
             ELSE [exp |-> exp, bits |-> r.bits]
    ELSE [exp |-> exp, bits |-> kept]

\* 2^i modulo b, by squaring
RECURSIVE TwoPowMod(_, _)
TwoPowMod(i, b) ==
    IF i = 0 THEN 1 % b
    ELSE LET h == TwoPowMod(i \div 2, b)
         IN  (((h * h) % b) * (IF i % 2 = 1 THEN 2 ELSE 1)) % b

\* the remainder of the long division a / b (a < b) after i quotient bits
DivRem(a, b, i) == (a * TwoPowMod(i, b)) % b

\* n bits of the long division a / b for a < b, with the remainder left
LongDiv(a, b, n) ==
    [bits |-> [i \in 1..n |-> IF 2 * DivRem(a, b, i - 1) >= b THEN 1 ELSE 0],
     rem  |-> DivRem(a, b, n)]

\* scale a / b into [1/2, 1): a / b = (result.a / result.b) * 2^result.exp
RECURSIVE Normalize(_, _, _)
Normalize(a, b, e) ==
    IF a >= b THEN Normalize(a, 2 * b, e + 1)
    ELSE IF 2 * a < b THEN Normalize(2 * a, b, e - 1)
    ELSE [a |-> a, b |-> b, exp |-> e]

\* the double nearest to num / den (the correctly rounded quotient)
FloatOfRatio(num, den) ==
    IF num = 0 THEN FloatZero
    ELSE LET n == Normalize(num, den, 0)
             q == LongDiv(n.a, n.b, PrecisionBits)
         IN  RoundNearestEven(q.bits, n.exp, 2 * q.rem > n.b, 2 * q.rem = n.b)

\* the exact product of a 53-bit significand and the small natural k, as a
\* bit string without leading zeros, computed limb by limb with carries
MulBits(s, k) ==
    LET split == PrecisionBits - 2 * LimbBits
        low   == BitsToInt(SubSeq(s, split + LimbBits + 1, PrecisionBits)) * k
        mid   == BitsToInt(SubSeq(s, split + 1, split + LimbBits)) * k
                     + low \div (2 ^ LimbBits)
        top   == BitsToInt(SubSeq(s, 1, split)) * k + mid \div (2 ^ LimbBits)
    IN  ToBits(top) \o FixedBits(mid % (2 ^ LimbBits), LimbBits)
                    \o FixedBits(low % (2 ^ LimbBits), LimbBits)

\* x * k in binary64 for a small natural k (itself a double): the exact
\* product rounded to 53 bits
FloatMul(x, k) ==
    IF IsZero(x) \/ k = 0 THEN FloatZero
    ELSE LET exact == MulBits(x.bits, k)
             extra == Len(exact) - PrecisionBits
             kept  == SubSeq(exact, 1, PrecisionBits)
             half  == extra > 0 /\ exact[PrecisionBits + 1] = 1
             more  == \E i \in (PrecisionBits + 2)..Len(exact) : exact[i] = 1
         IN  RoundNearestEven(kept, x.exp + extra, half /\ more, half /\ ~more)

\* int(x) for a double x >= 0: the integer part, the fraction dropped
IntTrunc(x) ==
    IF IsZero(x) \/ x.exp <= 0 THEN 0
    ELSE BitsToInt(SubSeq(x.bits, 1, x.exp))

(***************************************************************************)
(* The service.                                                             *)
(***************************************************************************)
VARIABLES
    file,    \* what lies at MODEL_PATH when the process starts
    phase,   \* "startup", "serving", or "failed" (startup raised)
    model,   \* app.state.model: "unset", "None" or "artifact"
    proba,   \* the artifact's answers revealed so far, per feature row
    reqs,    \* the POST /predict/score requests, in order of arrival
    health   \* the last answer of GET /

vars == <<file, phase, model, proba, reqs, health>>

\* the file is absent, cannot be unpickled, or holds an object.  An object
\* has a truth value (bool(obj)) and answers probabilities on a grid.
Files ==
    {[kind |-> k, truthy |-> FALSE, grid |-> "coarse"] : k \in {"absent", "corrupt"}}
        \cup [kind : {"object"}, truthy : BOOLEAN, grid : {"coarse", "fine"}]

\* the denominator of the probabilities the artifact answers
Den(f) == IF f.grid = "fine" THEN FineDen ELSE CoarseDen

\* requests explored: one against a fine artifact, MaxRequests otherwise
Budget(f) == IF f.grid = "fine" THEN 1 ELSE MaxRequests

\* TenantScoreRequest, as far as explored
Requests ==
    {d \in [missedPeriods : 0..MaxCount, totalDisputes : 0..MaxCount] :
        d.missedPeriods + d.totalDisputes <= MaxCount}

\* the single-row frame built from a request (lines 52-56)
Features(data) == <<data.missedPeriods, data.totalDisputes>>

Rows == {Features(d) : d \in Requests}

\* what predict_proba does on a row: it raises, it returns a row with a
\* single column (probs[0][1] raises IndexError), or it returns
\* (1 - p, p) with p the double nearest num / Den
NotCalled == [kind |-> "not_called", num |-> 0]

Outcomes(f) ==
    {[kind |-> k, num |-> 0] : k \in {"raises", "one_column"}}
        \cup [kind : {"proba"}, num : 0..Den(f)]

\* str(e) of the exception an outcome leads to
FailureText(o) ==
    IF o.kind = "raises" THEN "predict_proba failed"
    ELSE "index 1 is out of bounds for axis 1 with size 1"

NoResponse == [status |-> 0, body |-> [detail |-> "none"]]

NoHealth == [status |-> "none", model_loaded |-> FALSE]

NewRequest(data) ==
    [data |-> data, pc |-> "received", calls |-> 0, sent |-> 0,
     response |-> NoResponse]

\* the handler returns or raises HTTPException: the request is answered
Answer(r, resp) ==
    [r EXCEPT !.pc = "done", !.sent = @ + 1, !.response = resp]

Init ==
    /\ file \in Files
    /\ phase = "startup"
    /\ model = "unset"
    /\ proba = [row \in Rows |-> NotCalled]
    /\ reqs = <<>>
    /\ health = NoHealth

(***************************************************************************)
(* lifespan (lines 9-23)                                                    *)
(***************************************************************************)
\* os.path.exists and joblib.load succeeds
LoadFound ==
    /\ phase = "startup"
    /\ file.kind = "object"
    /\ model' = "artifact"
    /\ phase' = "serving"
    /\ UNCHANGED <<file, proba, reqs, health>>

\* os.path.exists fails
LoadMissing ==
    /\ phase = "startup"
    /\ file.kind = "absent"
    /\ model' = "None"
    /\ phase' = "serving"
    /\ UNCHANGED <<file, proba, reqs, health>>

\* os.path.exists but joblib.load raises: nothing catches it, the startup
\* fails and the server exits without serving
LoadRaises ==
    /\ phase = "startup"
    /\ file.kind = "corrupt"
    /\ phase' = "failed"
    /\ UNCHANGED <<file, model, proba, reqs, health>>

(***************************************************************************)
(* health_check (lines 30-35)                                               *)
(***************************************************************************)
HealthBody == [status |-> "Online", model_loaded |-> model # "None"]

HealthCheck ==
    /\ phase = "serving"
    /\ health' = HealthBody
    /\ UNCHANGED <<file, phase, model, proba, reqs>>

(***************************************************************************)
(* predict_risk_score (lines 37-84)                                         *)
(***************************************************************************)
\* `not app.state.model` (line 39)
Unavailable == model = "None" \/ (model = "artifact" /\ ~file.truthy)

Http503 == [status |-> 503, body |-> [detail |-> "AI Model is not loaded on server."]]

FastPathResponse ==
    [status |-> 200,
     body   |-> [trust_score |-> 100, risk_category |-> "Safe",
                 recommendation |-> "Approve"]]

Http500(text) == [status |-> 500, body |-> [detail |-> <<"Prediction Error: ", text>>]]

PerfectRecord(data) == data.missedPeriods = 0 /\ data.totalDisputes = 0

\* lines 39-48 with the fast path tried before the availability check
ShortcutBeforeCheck(r) ==
    IF PerfectRecord(r.data) THEN Answer(r, FastPathResponse)
    ELSE IF Unavailable THEN Answer(r, Http503)
    ELSE [r EXCEPT !.pc = "trying"]

\* lines 39-48: the availability check, then the fast path
CheckAndShortcut(r) ==
    IF Unavailable THEN Answer(r, Http503)
    ELSE IF PerfectRecord(r.data) THEN Answer(r, FastPathResponse)
    ELSE [r EXCEPT !.pc = "trying"]

\* line 64 with the factor 1000
PerMilleScore(p) == IntTrunc(FloatMul(p, 1000))

\* line 64 with round(): the product rounded to the nearest integer
RoundedScore(p) ==
    LET product == FloatMul(p, 100)
    IN  IntTrunc(product)
            + (IF ~IsZero(product) /\ product.exp >= 0
                  /\ product.bits[product.exp + 1] = 1 THEN 1 ELSE 0)

\* line 64: int(trust_probability * 100)
FinalScore(p) == IntTrunc(FloatMul(p, 100))

\* lines 67-75 with >= 75
CategorizeInclusive(score) ==
    IF score >= 75 THEN [risk_category |-> "Safe", recommendation |-> "Approve"]
    ELSE IF score < 40
         THEN [risk_category |-> "Risky", recommendation |-> "Review Manually"]
         ELSE [risk_category |-> "Moderate", recommendation |-> "Review Manually"]

\* lines 67-75
Categorize(score) ==
    IF score > 75 THEN [risk_category |-> "Safe", recommendation |-> "Approve"]
    ELSE IF score < 40
         THEN [risk_category |-> "Risky", recommendation |-> "Review Manually"]
         ELSE [risk_category |-> "Moderate", recommendation |-> "Review Manually"]

\* lines 61-81
ScoreResponse(p) ==
    LET final_score == FinalScore(p)
        c == Categorize(final_score)
    IN  [status |-> 200,
         body   |-> [trust_score |-> final_score,
                     risk_category |-> c.risk_category,
                     recommendation |-> c.recommendation]]

\* lines 83-84 with one more attempt before giving up
RetryOnce(r, text) ==
    IF r.calls < 2 THEN r ELSE Answer(r, Http500(text))

\* lines 83-84: except Exception raises the 500
OnException(r, text) == Answer(r, Http500(text))

\* the handler with a circuit breaker that drops the model on a failure
DropModelOnFailure(o) == IF o.kind = "proba" THEN model ELSE "None"

\* app.state.model after the try block: the handler never assigns it
ModelAfterTry(o) == model

\* lines 50-84 for one request, given what predict_proba does on its row
TryBlock(r, o) ==
    LET called == [r EXCEPT !.calls = @ + 1]
    IN  IF o.kind = "proba"
        THEN Answer(called, ScoreResponse(FloatOfRatio(o.num, Den(file))))
        ELSE OnException(called, FailureText(o))

\* the framework hands a validated request to the handler
Submit(data) ==
    /\ phase = "serving"
    /\ Len(reqs) < Budget(file)
    /\ reqs' = Append(reqs, NewRequest(data))
    /\ UNCHANGED <<file, phase, model, proba, health>>

Handle(i) ==
    /\ reqs[i].pc = "received"
    /\ reqs' = [reqs EXCEPT ![i] = CheckAndShortcut(@)]
    /\ UNCHANGED <<file, phase, model, proba, health>>

\* the artifact is deterministic: a row already scored gets the same answer
Predict(i) ==
    /\ reqs[i].pc = "trying"
    /\ LET row == Features(reqs[i].data)
       IN  \E o \in (IF proba[row] = NotCalled THEN Outcomes(file) ELSE {proba[row]}) :
               /\ proba' = [proba EXCEPT ![row] = o]
               /\ reqs' = [reqs EXCEPT ![i] = TryBlock(@, o)]
               /\ model' = ModelAfterTry(o)
    /\ UNCHANGED <<file, phase, health>>

Next ==
    \/ LoadFound
    \/ LoadMissing
    \/ LoadRaises
    \/ HealthCheck
    \/ \E data \in Requests : Submit(data)
    \/ \E i \in 1..Len(reqs) : Handle(i)
    \/ \E i \in 1..Len(reqs) : Predict(i)

Spec == Init /\ [][Next]_vars

(***************************************************************************)
(* Properties.                                                              *)
(***************************************************************************)
Answered(i) == reqs[i].pc = "done"

Succeeded(i) == Answered(i) /\ reqs[i].response.status = 200

\* a response computed from the artifact's answer
OnModelPath(i) == Succeeded(i) /\ ~PerfectRecord(reqs[i].data)

Body(i) == reqs[i].response.body

\* x < y on doubles >= 0
BitsLess(s, t) ==
    \E i \in 1..Len(s) : s[i] < t[i] /\ \A h \in 1..(i - 1) : s[h] = t[h]

FloatLess(x, y) ==
    IF IsZero(y) THEN FALSE
    ELSE IF IsZero(x) THEN TRUE
    ELSE IF x.exp # y.exp THEN x.exp < y.exp
    ELSE BitsLess(x.bits, y.bits)

\* C1: every successful response of POST /predict/score, fast path or model
\* path, carries an integer trust_score with 0 <= trust_score <= 100
C1_TrustScoreInRange ==
    \A i \in 1..Len(reqs) :
        Succeeded(i) => Body(i).trust_score \in 0..100

\* a fast-path answer and a model-path answer for prob_good = 1.0
C1_Witness ==
    \E i, j \in 1..Len(reqs) :
        /\ Succeeded(i) /\ PerfectRecord(reqs[i].data)
        /\ OnModelPath(j)
        /\ proba[Features(reqs[j].data)] = [kind |-> "proba", num |-> Den(file)]
        /\ Body(j).trust_score = 100

\* C2: with the artifact file absent at startup, GET / reports
\* model_loaded = false and every POST /predict/score is answered 503, the
\* zero/zero request included, and the artifact is never invoked
C2_AbsentFileAlways503 ==
    (file.kind = "absent" /\ phase # "startup") =>
        /\ model = "None"
        /\ health # NoHealth => health.model_loaded = FALSE
        /\ \A i \in 1..Len(reqs) :
               /\ reqs[i].pc # "trying"
               /\ reqs[i].calls = 0
               /\ Answered(i) => reqs[i].response.status = 503
        /\ \A row \in Rows : proba[row] = NotCalled

\* file absent, the health endpoint asked, a zero/zero request and another
\* request both answered
C2_Witness ==
    /\ file.kind = "absent"
    /\ health # NoHealth
    /\ \E i, j \in 1..Len(reqs) :
           /\ Answered(i) /\ PerfectRecord(reqs[i].data)
           /\ Answered(j) /\ ~PerfectRecord(reqs[j].data)

\* C3: when the model is loaded, every zero/zero request is answered
\* exactly {100, Safe, Approve} and predict_proba is not invoked for it
C3_LoadedFastPath ==
    model = "artifact" =>
        /\ proba[<<0, 0>>] = NotCalled
        /\ \A i \in 1..Len(reqs) :
               (Answered(i) /\ PerfectRecord(reqs[i].data)) =>
                   /\ reqs[i].calls = 0
                   /\ reqs[i].response =
                          [status |-> 200,
                           body |-> [trust_score |-> 100, risk_category |-> "Safe",
                                     recommendation |-> "Approve"]]

\* C4: on the model path risk_category and recommendation follow from
\* trust_score alone: > 75 Safe/Approve, < 40 Risky/Review Manually,
\* 40..75 Moderate/Review Manually (75 Moderate, 76 Safe, 40 Moderate,
\* 39 Risky), and Approve exactly when Safe
C4_CategoryFollowsScore ==
    \A i \in 1..Len(reqs) :
        OnModelPath(i) =>
            LET s == Body(i).trust_score
                c == Body(i).risk_category
                a == Body(i).recommendation
            IN  /\ s > 75 => (c = "Safe" /\ a = "Approve")
                /\ s < 40 => (c = "Risky" /\ a = "Review Manually")
                /\ (40 <= s /\ s <= 75) => (c = "Moderate" /\ a = "Review Manually")
                /\ s = 75 => c = "Moderate"
                /\ s = 76 => c = "Safe"
                /\ s = 40 => c = "Moderate"
                /\ s = 39 => c = "Risky"
                /\ (a = "Approve") <=> (c = "Safe")

\* a model-path answer with the boundary score 75
C4_Witness ==
    \E i \in 1..Len(reqs) :
        OnModelPath(i) /\ Body(i).trust_score = 75 /\ Body(i).risk_category = "Moderate"

\* C5: the startup load never lets an exception escape: whatever the file
\* holds, the process ends up serving with the model state set
C5_LoadNeverRaises ==
    /\ phase # "failed"
    /\ phase = "serving" => model \in {"None", "artifact"}

\* C6: app.state.model is set once, before any request is handled, and no
\* request, on any path, changes it afterwards
C6_ModelSetOnceBeforeRequests ==
    [][/\ model # "unset" => model' = model
       /\ model' \in {"unset", "None", "artifact"}
       /\ (reqs' # reqs \/ health' # health) => model \in {"None", "artifact"}]_vars

\* the model still loaded after a 500, a 200 and a health check
C6_Witness ==
    /\ model = "artifact"
    /\ health # NoHealth
    /\ \E i, j \in 1..Len(reqs) :
           /\ Answered(i) /\ reqs[i].response.status = 500
           /\ Succeeded(j)

\* C7: a failure inside the try block (predict_proba raises, or the result
\* cannot be indexed) ends the request with a 500 that carries the failure
\* text, after one invocation and with one answer; requests handled
\* afterwards are served as if it had not happened
C7_FailureGives500Once ==
    /\ \A i \in 1..Len(reqs) :
           LET o == proba[Features(reqs[i].data)]
           IN  /\ reqs[i].sent <= 1
               /\ reqs[i].calls <= 1
               /\ (reqs[i].calls > 0 /\ o.kind \in {"raises", "one_column"}) =>
                      /\ Answered(i)
                      /\ reqs[i].sent = 1
                      /\ reqs[i].response.status = 500
                      /\ reqs[i].response.body.detail =
                             <<"Prediction Error: ",
                               IF o.kind = "raises" THEN "predict_proba failed"
                               ELSE "index 1 is out of bounds for axis 1 with size 1">>
    /\ (\E i \in 1..Len(reqs) : Answered(i) /\ reqs[i].response.status = 500) =>
           \A j \in 1..Len(reqs) :
               Answered(j) =>
                   /\ reqs[j].response.status # 503
                   /\ PerfectRecord(reqs[j].data) => Succeeded(j)
                   /\ proba[Features(reqs[j].data)].kind = "proba" => Succeeded(j)

\* a 500 followed by a request that arrived later and succeeded on the
\* model path
C7_Witness ==
    \E i, j \in 1..Len(reqs) :
        /\ i < j
        /\ Answered(i) /\ reqs[i].response.status = 500
        /\ reqs[i].response.body.detail = <<"Prediction Error: ", "predict_proba failed">>
        /\ OnModelPath(j)

\* the doubles n and the products fl(fl(k / den) * 100), tabulated
C8_IntAsFloat == [n \in 0..(FineDen + 1) |-> FloatOfRatio(n, 1)]

C8_Product ==
    [den \in {CoarseDen, FineDen} |->
        [k \in 0..den |-> FloatMul(FloatOfRatio(k, den), 100)]]

\* C8: on the model path trust_score is the integer part of the double
\* product prob_good * 100 (score <= product < score + 1): truncated, never
\* rounded up, so 0.82 gives 82, 0.829 gives 82, 0.30 gives 30 and 0.759
\* gives 75 and Moderate
C8_ScoreIsTruncatedProduct ==
    \A i \in 1..Len(reqs) :
        OnModelPath(i) =>
            LET k == proba[Features(reqs[i].data)].num
                den == Den(file)
                s == Body(i).trust_score
                product == C8_Product[den][k]
            IN  /\ s \in 0..FineDen
                /\ ~FloatLess(product, C8_IntAsFloat[s])
                /\ FloatLess(product, C8_IntAsFloat[s + 1])
                /\ s * den <= 100 * k
                /\ 100 * k = 82 * den => s = 82
                /\ 1000 * k = 829 * den => s = 82
                /\ 100 * k = 30 * den => s = 30
                /\ 1000 * k = 759 * den =>
                       (s = 75 /\ Body(i).risk_category = "Moderate")

\* prob_good = 0.829, whose product 82.899... would round to 83
C8_Witness ==
    \E i \in 1..Len(reqs) :
        /\ OnModelPath(i)
        /\ 1000 * proba[Features(reqs[i].data)].num = 829 * Den(file)
        /\ Body(i).trust_score = 82

C10_HealthAgreesWithScoring ==
    \A i \in 1..Len(reqs) :
        (Answered(i) /\ health # NoHealth) =>
            (health.model_loaded <=> reqs[i].response.status # 503)

====
